---- MODULE Spec2Model ----
(***************************************************************************)
(* Voice Agent API gateway: the three request handlers (speech-to-text,    *)
(* text-to-speech, chat) and the provider clients they dispatch to.        *)
(*                                                                         *)
(* Text values that the code trims, lower-cases, prefix-tests or decodes   *)
(* are sequences of one-character strings; messages and other opaque       *)
(* values are plain strings.  Bytes are integers 0..255.  A temperature    *)
(* is an integer number of hundredths (0.7 is 70, 2.01 is 201).            *)
(***************************************************************************)
EXTENDS Integers, Sequences, FiniteSets, TLC

VARIABLES env, kind, req, upstream, pc, loc, calls, resp, tasks

\* The state of one request as its handler runs.
handler == <<env, kind, req, upstream, pc, loc, calls, resp>>

vars == <<env, kind, req, upstream, pc, loc, calls, resp, tasks>>

(***************************************************************************)
(* Bounds of the model.                                                    *)
(***************************************************************************)
MaxAudioLen == 2
MaxMsgs == 2
NumReqs == 2

(***************************************************************************)
(* Text helpers: str.lower, str.strip, str.startswith.                     *)
(***************************************************************************)
\* None is a one-element sequence that no text value equals.
None == <<"None">>

\* The alphabet of the model is the code points up to 255.  An ASCII
\* character is written as itself; a character above code point 127 is written
\* by its code point, "U+0080" to "U+00FF", one element of a text each.
HexDigits == <<"0","1","2","3","4","5","6","7","8","9","A","B","C","D","E","F">>

Latin1(n) == "U+00" \o HexDigits[(n \div 16) + 1] \o HexDigits[(n % 16) + 1]

UpperLetters == <<"A","B","C","D","E","F","G","H","I","J","K","L","M",
                  "N","O","P","Q","R","S","T","U","V","W","X","Y","Z">>
LowerLetters == <<"a","b","c","d","e","f","g","h","i","j","k","l","m",
                  "n","o","p","q","r","s","t","u","v","w","x","y","z">>

\* The upper-case letters above code point 127 that str.lower folds, U+00C0 to
\* U+00DE without the multiplication sign U+00D7, and their lower-case forms,
\* 32 code points further on.
Latin1UpperCodes == <<192, 193, 194, 195, 196, 197, 198, 199, 200, 201, 202,
                      203, 204, 205, 206, 207, 208, 209, 210, 211, 212, 213,
                      214, 216, 217, 218, 219, 220, 221, 222>>
Latin1UpperLetters == [i \in DOMAIN Latin1UpperCodes |-> Latin1(Latin1UpperCodes[i])]
Latin1LowerLetters == [i \in DOMAIN Latin1UpperCodes |-> Latin1(Latin1UpperCodes[i] + 32)]

\* The characters str.strip() removes, among the characters of the model's
\* alphabet: \t \n \x0b \f \r \x1c-\x1f, the space, U+0085 and U+00A0.
Whitespace == {"\t", "\n", "", "\f", "\r", "", "", "", "", " ", Latin1(133), Latin1(160)}

IndexIn(c, seq) == IF \E i \in DOMAIN seq : seq[i] = c
                   THEN CHOOSE i \in DOMAIN seq : seq[i] = c
                   ELSE 0

LowerChar(c) == IF IndexIn(c, UpperLetters) # 0
                THEN LowerLetters[IndexIn(c, UpperLetters)]
                ELSE IF IndexIn(c, Latin1UpperLetters) # 0
                THEN Latin1LowerLetters[IndexIn(c, Latin1UpperLetters)]
                ELSE c

UpperChar(c) == IF IndexIn(c, LowerLetters) # 0
                THEN UpperLetters[IndexIn(c, LowerLetters)]
                ELSE c

Lower(s) == [i \in 1..Len(s) |-> LowerChar(s[i])]

Upper(s) == [i \in 1..Len(s) |-> UpperChar(s[i])]

SetMin(S) == CHOOSE x \in S : \A y \in S : x <= y
SetMax(S) == CHOOSE x \in S : \A y \in S : x >= y

Strip(s) == LET keep == {i \in 1..Len(s) : s[i] \notin Whitespace}
            IN  IF keep = {} THEN <<>> ELSE SubSeq(s, SetMin(keep), SetMax(keep))

StartsWith(s, p) == Len(s) >= Len(p) /\ SubSeq(s, 1, Len(p)) = p

\* Python truthiness of an optional string: None and "" are falsy.
Truthy(s) == s # None /\ s # <<>>

\* x or d
OrElse(x, d) == IF Truthy(x) THEN x ELSE d

(***************************************************************************)
(* Literals of the source.                                                 *)
(***************************************************************************)
s_scribe_v1 == <<"s","c","r","i","b","e","_","v","1">>
s_eleven_ == <<"e","l","e","v","e","n","_">>
s_whisper == <<"w","h","i","s","p","e","r","-","l","a","r","g","e","-","v","3">>
s_eleven_multilingual_v2 == s_eleven_ \o <<"m","u","l","t","i","l","i","n","g","u","a","l","_","v","2">>
s_eleven_monolingual_v2 == s_eleven_ \o <<"m","o","n","o","l","i","n","g","u","a","l","_","v","2">>
s_audio_ == <<"a", "u", "d", "i", "o", "/">>
s_mpeg == <<"m", "p", "e", "g">>
s_text_plain == <<"t", "e", "x", "t", "/", "p", "l", "a", "i", "n">>
s_webm == <<"w","e","b","m">>
s_wav == <<"w","a","v">>
s_mp3 == <<"m","p","3">>
s_m4a == <<"m","4","a">>
s_ogg == <<"o","g","g">>
s_flac == <<"f","l","a","c">>
s_aac == <<"a","a","c">>
s_opus == <<"o","p","u","s">>
s_pcm == <<"p","c","m">>
s_elevenlabs == <<"e","l","e","v","e","n","l","a","b","s">>
s_openai == <<"o","p","e","n","a","i">>
s_Bill == <<"B","i","l","l">>
s_echo == <<"e","c","h","o">>
s_ballad == <<"b","a","l","l","a","d">>
s_gpt4o == <<"g","p","t","-","4","o","-","m","i","n","i","-","t","t","s">>
s_tts1 == <<"t","t","s","-","1">>
s_llama == <<"l","l","a","m","a","-","3",".","3","-","7","0","b","-","v","e","r","s","a","t","i","l","e">>
s_alloy == <<"a","l","l","o","y">>
s_fable == <<"f","a","b","l","e">>
s_onyx == <<"o","n","y","x">>
s_nova == <<"n","o","v","a">>
s_shimmer == <<"s","h","i","m","m","e","r">>
s_coral == <<"c","o","r","a","l">>
s_verse == <<"v","e","r","s","e">>
s_ash == <<"a","s","h">>
s_sage == <<"s","a","g","e">>
s_boy == <<"b","o","y">>
s_young == <<"y","o","u","n","g">>
s_kid == <<"k","i","d">>
s_child == <<"c","h","i","l","d">>
s_young_boy == <<"y","o","u","n","g","_","b","o","y">>
s_young_dash_boy == <<"y","o","u","n","g","-","b","o","y">>
s_Alice == <<"A","l","i","c","e">>
s_zed == <<"z","e","d">>

(***************************************************************************)
(* base64: the encoder a client uses to build the JSON envelope and the    *)
(* decoder base64.b64decode (non-validating: characters outside the        *)
(* alphabet are skipped, decoding stops at a completed pad sequence, a     *)
(* dangling quad is an error, a non-ASCII character is an error).          *)
(***************************************************************************)
Digits == <<"0","1","2","3","4","5","6","7","8","9">>

B64Chars == UpperLetters \o LowerLetters \o Digits \o <<"+","/">>

\* The characters above code point 127: b64decode raises on each of them.
NonAscii == {Latin1(n) : n \in 128..255}

B64Char(v) == B64Chars[v + 1]

RECURSIVE B64Encode(_)
B64Encode(b) ==
    IF Len(b) = 0 THEN <<>>
    ELSE IF Len(b) = 1
         THEN <<B64Char(b[1] \div 4), B64Char((b[1] % 4) * 16), "=", "=">>
    ELSE IF Len(b) = 2
         THEN <<B64Char(b[1] \div 4), B64Char((b[1] % 4) * 16 + b[2] \div 16),
                B64Char((b[2] % 16) * 4), "=">>
    ELSE <<B64Char(b[1] \div 4), B64Char((b[1] % 4) * 16 + b[2] \div 16),
           B64Char((b[2] % 16) * 4 + b[3] \div 64), B64Char(b[3] % 64)>>
         \o B64Encode(SubSeq(b, 4, Len(b)))

DecodeError == [ok |-> FALSE, data |-> <<>>]

RECURSIVE B64Scan(_, _, _, _, _, _)
B64Scan(s, i, quad, left, pads, out) ==
    IF i > Len(s)
    THEN IF quad # 0 THEN DecodeError ELSE [ok |-> TRUE, data |-> out]
    ELSE IF s[i] = "="
         THEN IF quad >= 2 /\ quad + pads + 1 >= 4
              THEN [ok |-> TRUE, data |-> out]
              ELSE B64Scan(s, i + 1, quad, left,
                           IF quad >= 2 THEN pads + 1 ELSE pads, out)
    ELSE IF IndexIn(s[i], B64Chars) = 0
         THEN B64Scan(s, i + 1, quad, left, pads, out)
    ELSE LET v == IndexIn(s[i], B64Chars) - 1
         IN  CASE quad = 0 -> B64Scan(s, i + 1, 1, v, 0, out)
               [] quad = 1 -> B64Scan(s, i + 1, 2, v % 16, 0,
                                      Append(out, left * 4 + v \div 16))
               [] quad = 2 -> B64Scan(s, i + 1, 3, v % 4, 0,
                                      Append(out, left * 16 + v \div 4))
               [] OTHER    -> B64Scan(s, i + 1, 0, 0, 0,
                                      Append(out, left * 64 + v))

B64Decode(s) ==
    IF \E i \in 1..Len(s) : s[i] \in NonAscii
    THEN DecodeError
    ELSE B64Scan(s, 1, 0, 0, 0, <<>>)

(***************************************************************************)
(* Environment, responses and the failure helper.                          *)
(***************************************************************************)
s_calm == <<"c","a","l","m">>

\* OPENAI_TTS_INSTRUCTIONS: unset, blank, or a style with a space before it.
TtsInstructionSettings == {None, <<" ">>, <<" ">> \o s_calm}

\* Which API credentials the process environment holds, and its setting of
\* OPENAI_TTS_INSTRUCTIONS.  The setting is read by the OpenAI client's
\* constructor after its credential check (openai_tts_service.py lines 16-36),
\* so the environments without that credential are taken with it unset.
Envs == {e \in [groq : BOOLEAN, eleven : BOOLEAN, openai : BOOLEAN,
                tts_instructions : TtsInstructionSettings] :
            ~e.openai => e.tts_instructions = None}

\* The constructors of the three clients: each succeeds exactly when its
\* API key is in the environment, and raises ValueError otherwise.
GroqService(e) == e.groq

ElevenLabsServiceDeferred(e) == TRUE

ElevenLabsService(e) == e.eleven

OpenAITTSService(e) == e.openai

NoBody == [type |-> "none"]

NoResp == [status |-> 0, detail |-> "", body |-> NoBody]

NoReq == [form |-> "none"]

NoFile == [present |-> FALSE, data |-> <<>>, ext |-> <<>>, ct |-> <<>>]

NoRequest == [present |-> FALSE]

NoParams == [file |-> NoFile, model_id |-> None, request |-> NoRequest]

LocInit == [params |-> NoParams, audio_data |-> <<>>, model_id |-> None,
            content_type |-> <<>>,
            use_eleven |-> FALSE, provider |-> None, voice_id |-> "",
            voices |-> <<>>]

\* raise HTTPException(status_code=st, detail=d), re-raised by the handler.
Raise(st, d) == /\ pc' = "Failed"
                /\ resp' = [status |-> st, detail |-> d, body |-> NoBody]

\* The request body model's default for an absent field.
Default(v, d) == IF v = None THEN d ELSE v

ByteVals == {0, 65}

RECURSIVE SeqsUpTo(_, _)
SeqsUpTo(S, n) == IF n = 0 THEN {<<>>}
                  ELSE LET shorter == SeqsUpTo(S, n - 1)
                       IN  shorter \cup {Append(s, x) : s \in shorter, x \in S}

AudioBuffers == SeqsUpTo(ByteVals, MaxAudioLen)

\* Error statuses an upstream provider may answer with.
ErrorStatuses == {400, 503}

(***************************************************************************)
(* Speech-to-text: routes/speech_to_text.py                                *)
(***************************************************************************)
\* A variant of an identifier: case changed, whitespace around it.
Variants(s) == {s, <<" ">> \o s \o <<"\t">>, <<"\n">> \o Upper(s) \o <<"\r">>}

SttModelBases == {s_scribe_v1, s_eleven_, s_eleven_ \o <<"x">>, s_whisper,
                  <<"x">> \o s_eleven_, s_scribe_v1 \o <<"x">>, <<>>}

\* Identifiers with characters above code point 127 around them: a letter,
\* which strip() keeps, and the two whitespace characters it removes.
SttModelIds == UNION {Variants(b) : b \in SttModelBases}
               \cup {<<Latin1(233)>> \o s_scribe_v1,
                     <<Latin1(160)>> \o s_scribe_v1 \o <<Latin1(133)>>}

Base64Inputs ==
    {B64Encode(b) : b \in AudioBuffers}
    \cup {SubSeq(B64Encode(b), 1, 4 * ((Len(b) + 2) \div 3) - 1) : b \in AudioBuffers \ {<<>>}}
    \cup {<<"!","!">>, <<"=","=","=","=">>, <<" ">>, <<Latin1(233)>>, <<"Q","!","Q","=","=">>,
          <<"Q", Latin1(252), "Q", "=", "=">>}

SttFormats == {None, s_wav, Upper(s_mp3), <<"x">>, <<>>}

UploadExts == {<<>>, s_wav, Upper(s_mp3), <<"x">>}

UploadContentTypes == {<<>>, s_audio_ \o s_wav, s_audio_, s_text_plain}

\* SpeechToTextRequest with the schema's defaults filled in.
SpeechToTextRequest(audio, format, model_id) ==
    [form |-> "json", audio |-> audio,
     format |-> Default(format, s_webm),
     model_id |-> Default(model_id, s_scribe_v1),
     model_given |-> model_id # None]

\* A form field that is missing or empty takes the declared default.
FormDefault(v, d) == IF v = None \/ v = <<>> THEN d ELSE v

\* A multipart upload: the file and the model_id form field.
UploadRequest(data, ext, ct, model_id) ==
    [form |-> "upload", file_data |-> data, file_ext |-> ext, file_ct |-> ct,
     model_id |-> FormDefault(model_id, s_whisper),
     model_given |-> model_id \notin {None, <<>>}]

\* A handler that received the JSON envelope as its request parameter.
BindSttJsonBody(r) ==
    IF r.form = "upload"
    THEN [file |-> [present |-> TRUE, data |-> r.file_data, ext |-> r.file_ext,
                    ct |-> r.file_ct],
          model_id |-> r.model_id, request |-> NoRequest]
    ELSE IF r.form = "json"
    THEN [file |-> NoFile, model_id |-> s_whisper,
          request |-> [present |-> TRUE, audio |-> r.audio, format |-> r.format,
                       model_id |-> r.model_id]]
    ELSE [file |-> NoFile, model_id |-> s_whisper, request |-> NoRequest]

\* Lines 20-24: the parameters the handler is entered with.  File and Form
\* parameters make the body a form: the file and model_id come from it, and
\* the request parameter is never filled from a JSON body.
BindStt(r) ==
    IF r.form = "upload"
    THEN [file |-> [present |-> TRUE, data |-> r.file_data, ext |-> r.file_ext,
                    ct |-> r.file_ct],
          model_id |-> r.model_id, request |-> NoRequest]
    ELSE [file |-> NoFile, model_id |-> s_whisper, request |-> NoRequest]

IsEmptyNever(b) == FALSE

IsEmpty(b) == Len(b) = 0

\* Lines 35-72: the audio bytes and model id of the request, or the 400 raised.
ReadAudio(p) ==
    IF p.file.present
    THEN IF IsEmpty(p.file.data)
         THEN [ok |-> FALSE, detail |-> "Invalid audio data - empty buffer"]
         ELSE [ok |-> TRUE, audio_data |-> p.file.data, model_id |-> p.model_id]
    ELSE IF ~p.request.present
         THEN [ok |-> FALSE, detail |-> "Audio data is required"]
    ELSE IF ~Truthy(p.request.audio)
         THEN [ok |-> FALSE, detail |-> "Audio data is required"]
    ELSE LET d == B64Decode(p.request.audio)
         IN  IF ~d.ok
             THEN [ok |-> FALSE, detail |-> "Invalid base64 audio data"]
             ELSE IF IsEmpty(d.data)
             THEN [ok |-> FALSE,
                   detail |-> "Invalid audio data - empty buffer after decoding"]
             ELSE [ok |-> TRUE, audio_data |-> d.data, model_id |-> p.request.model_id]

MimeMap(fmt) ==
    CASE fmt = s_webm -> s_audio_ \o s_webm
      [] fmt = s_wav  -> s_audio_ \o s_wav
      [] fmt = s_mp3  -> s_audio_ \o s_mpeg
      [] fmt = s_m4a  -> s_audio_ \o s_m4a
      [] fmt = s_ogg  -> s_audio_ \o s_ogg
      [] fmt = s_flac -> s_audio_ \o s_flac
      [] OTHER        -> <<>>

\* Lines 74-94: the MIME type handed to the Groq transcription.
ContentType(p) ==
    IF p.file.present
    THEN LET fmt == Lower(OrElse(p.file.ext, s_webm))
         IN  IF MimeMap(fmt) # <<>> THEN MimeMap(fmt)
             ELSE IF StartsWith(p.file.ct, s_audio_) THEN p.file.ct
             ELSE s_audio_ \o s_webm
    ELSE LET fmt == IF p.request.present THEN OrElse(p.request.format, s_webm)
                    ELSE s_webm
         IN  IF MimeMap(Lower(fmt)) # <<>> THEN MimeMap(Lower(fmt))
             ELSE s_audio_ \o s_webm

UseElevenExactOnly(model_id) == Lower(Strip(model_id)) = s_scribe_v1

\* Lines 96-104: ElevenLabs is chosen by the model id.
UseEleven(model_id) ==
    LET normalized_model == Lower(Strip(model_id))
    IN  normalized_model \in {s_scribe_v1} \/ StartsWith(normalized_model, s_eleven_)

\* The bodies of an upstream error answer, and the text of a transport error.
ErrorTexts == {"upstream says no", ""}

TransportErrors == {"connection failed"}

\* What the ElevenLabs transcription endpoint may answer.
SttReplies ==
    {[type |-> "ok", status |-> 200, text |-> tx, has_confidence |-> hc,
      confidence |-> IF hc THEN 93 ELSE 0, error |-> ""] :
        tx \in {"", "hello"}, hc \in BOOLEAN}
    \cup {[type |-> "error", status |-> s, text |-> "", has_confidence |-> FALSE,
           confidence |-> 0, error |-> e] : s \in ErrorStatuses, e \in ErrorTexts}
    \cup {[type |-> "exception", status |-> 0, text |-> "", has_confidence |-> FALSE,
           confidence |-> 0, error |-> e] : e \in TransportErrors}

\* status_code=response.status: the upstream's status is the one raised.
PassStatus(s) == s

\* ElevenLabsService.speech_to_text after the upstream answered.
ElevenTranscribeResult(r) ==
    CASE r.type = "exception" ->
           [ok |-> FALSE, status |-> 500,
            detail |-> "Speech-to-text processing failed: " \o r.error]
      [] r.type = "error" ->
           [ok |-> FALSE, status |-> PassStatus(r.status),
            detail |-> "Failed to transcribe audio: " \o r.error]
      [] r.type = "ok" /\ r.text = "" ->
           [ok |-> FALSE, status |-> 500, detail |-> "No transcription received from ElevenLabs"]
      [] OTHER ->
           [ok |-> TRUE, text |-> r.text,
            confidence |-> IF r.has_confidence THEN r.confidence ELSE 0]

\* Lines 19-24: the request reaches the handler with its parameters bound.
ReceiveStt ==
    /\ pc = "Idle"
    /\ \/ \E a \in Base64Inputs \cup {None, <<>>}, f \in {None, s_wav},
               m \in {None, s_scribe_v1, s_whisper} :
            req' = SpeechToTextRequest(a, f, m)
       \/ \E d \in AudioBuffers, e \in UploadExts, ct \in UploadContentTypes,
             m \in SttModelIds \cup {None} :
            req' = UploadRequest(d, e, ct, m)
       \/ req' = NoReq
    /\ loc' = [loc EXCEPT !.params = BindStt(req')]
    /\ kind' = "stt"
    /\ pc' = "stt_construct"
    /\ UNCHANGED <<tasks, env, upstream, calls, resp>>

\* Line 31: groq_service = GroqService()
SttConstruct ==
    /\ pc = "stt_construct"
    /\ IF GroqService(env)
       THEN pc' = "stt_read" /\ UNCHANGED resp
       ELSE Raise(500, "Speech-to-text processing failed: GROQ_API_KEY environment variable is required")
    /\ UNCHANGED <<tasks, env, kind, req, upstream, loc, calls>>

\* Line 42: await file.read() of an upload that was spooled to disk is served
\* by a worker thread, and the handler waits for it.
SttFileRead ==
    /\ pc = "stt_read"
    /\ loc.params.file.present
    /\ pc' = "stt_file_wait"
    /\ UNCHANGED <<tasks, env, kind, req, upstream, loc, calls, resp>>

\* Lines 35-72: read the upload or decode the base64 envelope.
SttRead ==
    /\ pc \in {"stt_read", "stt_file_wait"}
    /\ LET a == ReadAudio(loc.params)
       IN  IF a.ok
           THEN /\ loc' = [loc EXCEPT !.audio_data = a.audio_data, !.model_id = a.model_id]
                /\ pc' = "stt_select"
                /\ UNCHANGED resp
           ELSE /\ Raise(400, a.detail)
                /\ UNCHANGED loc
    /\ UNCHANGED <<tasks, env, kind, req, upstream, calls>>

\* Lines 74-104: MIME type, then the provider decision.
SttSelect ==
    /\ pc = "stt_select"
    /\ loc' = [loc EXCEPT !.content_type = ContentType(loc.params),
                          !.use_eleven = UseEleven(loc.model_id)]
    /\ pc' = "stt_dispatch"
    /\ UNCHANGED <<tasks, env, kind, req, upstream, calls, resp>>

\* Lines 106-112: the ElevenLabs client is built and its transcription invoked.
SttCallEleven ==
    /\ pc = "stt_dispatch"
    /\ loc.use_eleven
    /\ IF ElevenLabsService(env)
       THEN /\ calls' = Append(calls, [op |-> "elevenlabs.speech_to_text",
                                       audio_data |-> loc.audio_data,
                                       model_id |-> OrElse(loc.model_id, s_scribe_v1)])
            \* elevenlabs_service.py line 36: the client checks the buffer again.
            /\ IF Len(loc.audio_data) = 0
               THEN Raise(400, "Invalid audio data - empty buffer")
               ELSE pc' = "stt_await" /\ UNCHANGED resp
       ELSE /\ Raise(500, "Speech-to-text processing failed: ELEVENLABS_API_KEY environment variable is required")
            /\ UNCHANGED calls
    /\ UNCHANGED <<tasks, env, kind, req, upstream, loc>>

\* Lines 113-120: GroqService has no transcribe_audio; the attribute lookup
\* raises AttributeError, which the handler turns into a 500.
SttCallGroqSwallowed ==
    /\ pc = "stt_dispatch"
    /\ ~loc.use_eleven
    /\ pc' = "Succeeded"
    /\ resp' = [status |-> 200, detail |-> "",
                body |-> [type |-> "transcription", text |-> "", confidence |-> 0]]
    /\ UNCHANGED <<tasks, env, kind, req, upstream, loc, calls>>

SttCallGroq ==
    /\ pc = "stt_dispatch"
    /\ ~loc.use_eleven
    /\ Raise(500, "Speech-to-text processing failed: 'GroqService' object has no attribute 'transcribe_audio'")
    /\ UNCHANGED <<tasks, env, kind, req, upstream, loc, calls>>

\* elevenlabs_service.py lines 44-49: the upstream's response arrives, or the
\* transport fails; the body is still to be read.
SttResponse ==
    /\ pc = "stt_await"
    /\ \E r \in SttReplies :
         /\ upstream' = Append(upstream, r)
         /\ IF r.type = "exception"
            THEN LET res == ElevenTranscribeResult(r) IN Raise(res.status, res.detail)
            ELSE pc' = "stt_body" /\ UNCHANGED resp
    /\ UNCHANGED <<tasks, env, kind, req, loc, calls>>

\* elevenlabs_service.py lines 50-71: the body is read; lines 122-125 of the
\* route build the response.
SttReply ==
    /\ pc = "stt_body"
    /\ LET res == ElevenTranscribeResult(upstream[Len(upstream)])
       IN  IF res.ok
           THEN /\ pc' = "Succeeded"
                /\ resp' = [status |-> 200, detail |-> "",
                            body |-> [type |-> "transcription", text |-> res.text,
                                      confidence |-> res.confidence]]
           ELSE Raise(res.status, res.detail)
    /\ UNCHANGED <<tasks, env, kind, req, upstream, loc, calls>>

(***************************************************************************)
(* Text-to-speech: routes/text_to_speech.py, services/openai_tts_service.py*)
(* and services/elevenlabs_service.py                                      *)
(***************************************************************************)
TtsTexts == {"", "hello"}

TtsVoiceNames == {None, <<>>, <<" ">>, s_Bill, s_boy, <<" ">> \o Upper(s_boy) \o <<"\t">>,
                  s_young, s_kid, s_child, s_young_boy, s_young_dash_boy,
                  s_alloy, s_zed}

TtsModelIds == {None, <<>>, s_eleven_multilingual_v2, s_eleven_monolingual_v2,
                s_gpt4o, s_tts1}

TtsProviders == {None, <<>>, s_openai, Upper(s_openai), <<" ">> \o s_openai,
                 s_elevenlabs, s_zed}

\* The last one is an unknown format, a capital letter above code point 127.
TtsFormats == {None, <<>>, s_mp3, Upper(s_mp3), s_wav, Upper(s_wav), <<Latin1(201)>>}

\* TextToSpeechRequest with the schema's defaults filled in.
TextToSpeechRequest(text, voice_name, model_id, provider, format) ==
    [form |-> "json", text |-> text,
     voice_name |-> Default(voice_name, s_Bill),
     model_id |-> model_id,
     voice_settings |-> "default",
     provider |-> Default(provider, s_elevenlabs),
     format |-> Default(format, s_mp3)]

TtsProviderNoLower(r) == OrElse(r.provider, s_elevenlabs)

\* Line 22: provider = (request.provider or "elevenlabs").lower()
TtsProvider(r) == Lower(OrElse(r.provider, s_elevenlabs))

\* The str of a text value.
RECURSIVE Str(_)
Str(s) == IF Len(s) = 0 THEN "" ELSE s[1] \o Str(Tail(s))

s_default_style == <<"S","p","e","a","k"," ","i","n"," ","a"," ",
                     "a","r","t","i","s","t","i","c"," ",
                     "c","a","r","t","o","o","n"," ","d","o","g"," ","w","a","y">>

\* openai_tts_service.py lines 33-36:
\* os.getenv("OPENAI_TTS_INSTRUCTIONS", default).strip()
StyleInstructions(e) ==
    Strip(IF e.tts_instructions = None THEN s_default_style ELSE e.tts_instructions)

\* openai_tts_service.py lines 104-107: the payload's input, the text with the
\* style before it when the style is not empty.
PromptText(style, text) ==
    IF style # <<>> THEN "[Style: " \o Str(style) \o "]\n" \o text
    ELSE text

AllowedModels == {s_gpt4o}

\* OPENAI_TTS_MODEL outside the allowed set falls back to this one, the only
\* allowed model, so the default is the same in every environment.
DefaultModel == s_gpt4o

AllowedVoices == {s_alloy, s_echo, s_fable, s_onyx, s_nova, s_shimmer, s_coral,
                  s_verse, s_ballad, s_ash, s_sage}

AllowedFormats == {s_mp3, s_wav, s_ogg, s_flac, s_aac, s_opus, s_pcm}

AliasNames == {s_boy, s_young, s_kid, s_child, s_young_boy, s_young_dash_boy}

\* OpenAITTSService._normalize_voice_name
NormalizeVoiceName(voice_name) ==
    IF ~Truthy(voice_name) THEN s_ballad
    ELSE LET name == Lower(Strip(voice_name))
         IN  IF name \in AliasNames THEN s_ballad ELSE name

OpenAIVoiceNoFallback(voice_name) == NormalizeVoiceName(voice_name)

\* OpenAITTSService.text_to_speech: the voice, model and format of the payload.
OpenAIVoice(voice_name) ==
    LET name == NormalizeVoiceName(voice_name)
    IN  IF name \in AllowedVoices THEN name ELSE s_ballad

OpenAIModel(model_id) ==
    IF Truthy(model_id) /\ model_id \in AllowedModels THEN model_id ELSE DefaultModel

OpenAIFormat(output_format) ==
    IF output_format \in AllowedFormats THEN output_format ELSE s_mp3

\* Lines 33-40 of the route: what it hands to the OpenAI client.
RouteOpenAIVoice(r) == OrElse(r.voice_name, s_echo)

RouteOpenAIModel(r) ==
    IF Truthy(r.model_id) /\ StartsWith(r.model_id, s_eleven_) THEN None ELSE r.model_id

\* Lines 78-81 of the route: the model handed to the ElevenLabs client.
RouteElevenModel(r) ==
    LET m == OrElse(r.model_id, s_eleven_multilingual_v2)
    IN  IF m = s_eleven_monolingual_v2 THEN s_eleven_multilingual_v2 ELSE m

GetVoiceByNameLast(voices, voice_name) ==
    LET hits == {i \in 1..Len(voices) : voices[i].name = voice_name}
    IN  IF hits = {} THEN 0 ELSE SetMax(hits)

\* ElevenLabsService.get_voice_by_name: index of the first voice of that name, or 0.
GetVoiceByName(voices, voice_name) ==
    LET hits == {i \in 1..Len(voices) : voices[i].name = voice_name}
    IN  IF hits = {} THEN 0 ELSE SetMin(hits)

VoiceNames(voices) == [i \in 1..Len(voices) |-> voices[i].name]

\* ', '.join(names)
RECURSIVE Join(_)
Join(names) ==
    IF Len(names) = 0 THEN ""
    ELSE IF Len(names) = 1 THEN Str(names[1])
    ELSE Str(names[1]) \o ", " \o Join(Tail(names))

\* Lines 59-64: the 400 naming the requested voice and the available names.
VoiceNotFound(voice_name, names) ==
    [status |-> 400,
     detail |-> "Voice '" \o Str(voice_name) \o "' not found. Available voices: "
                \o Join(names),
     body |-> NoBody]

\* Lines 92-93: the Content-Type and the file extension of the response.
MediaType(r) == IF Lower(OrElse(r.format, s_mp3)) = s_mp3 THEN "audio/mpeg" ELSE "audio/wav"

FileExtNoLower(r) == OrElse(r.format, s_mp3)

FileExt(r) == Lower(OrElse(r.format, s_mp3))

AudioResponse(r, audio_data) ==
    [status |-> 200, detail |-> "",
     body |-> [type |-> "audio", content |-> audio_data, media_type |-> MediaType(r),
               content_length |-> Len(audio_data), file_ext |-> FileExt(r)]]

\* What a synthesis endpoint may answer.
SynthReplies ==
    {[type |-> "ok", status |-> 200, audio |-> a, error |-> ""] : a \in {<<1, 2>>, <<>>}}
    \cup {[type |-> "error", status |-> s, audio |-> <<>>, error |-> e] :
             s \in ErrorStatuses, e \in ErrorTexts}
    \cup {[type |-> "exception", status |-> 0, audio |-> <<>>, error |-> e] :
             e \in TransportErrors}

VoiceLists == {<<>>,
               <<[voice_id |-> "v1", name |-> s_Bill]>>,
               <<[voice_id |-> "v1", name |-> s_Alice], [voice_id |-> "v2", name |-> s_Bill],
                 [voice_id |-> "v3", name |-> s_Bill]>>,
               <<[voice_id |-> "v1", name |-> Lower(s_Bill)], [voice_id |-> "v2", name |-> s_boy]>>}

\* What the ElevenLabs voices endpoint may answer.
VoicesReplies ==
    {[type |-> "ok", status |-> 200, voices |-> v, error |-> ""] : v \in VoiceLists}
    \cup {[type |-> "error", status |-> s, voices |-> <<>>, error |-> ""] :
             s \in ErrorStatuses}
    \cup {[type |-> "exception", status |-> 0, voices |-> <<>>, error |-> e] :
             e \in TransportErrors}

\* text_to_speech of either client after the upstream answered.
SynthResult(r, what) ==
    CASE r.type = "exception" ->
           [ok |-> FALSE, status |-> 500,
            detail |-> what \o " processing failed: " \o r.error]
      [] r.type = "error" ->
           [ok |-> FALSE, status |-> PassStatus(r.status),
            detail |-> "Failed to convert text to speech: " \o r.error]
      [] OTHER -> [ok |-> TRUE, audio_data |-> r.audio]

VoicesStatus(r) == 500

\* ElevenLabsService.get_voices after the upstream answered.
VoicesResult(r) ==
    CASE r.type = "exception" ->
           [ok |-> FALSE, status |-> 500,
            detail |-> "Failed to fetch voices: " \o r.error]
      [] r.type = "error" ->
           [ok |-> FALSE, status |-> VoicesStatus(r),
            detail |-> "Failed to fetch available voices"]
      [] OTHER -> [ok |-> TRUE, voices |-> r.voices]

ReceiveTts ==
    /\ pc = "Idle"
    /\ \E tx \in TtsTexts, v \in TtsVoiceNames, m \in TtsModelIds,
          p \in TtsProviders, f \in TtsFormats :
         req' = TextToSpeechRequest(tx, v, m, p, f)
    /\ kind' = "tts"
    /\ pc' = "tts_validate"
    /\ UNCHANGED <<tasks, env, upstream, loc, calls, resp>>

\* Lines 22-26: the provider is computed, then the text is required.
TtsValidate ==
    /\ pc = "tts_validate"
    /\ loc' = [loc EXCEPT !.provider = TtsProvider(req)]
    /\ IF req.text = ""
       THEN Raise(400, "Text is required")
       ELSE pc' = "tts_dispatch" /\ UNCHANGED resp
    /\ UNCHANGED <<tasks, env, kind, req, upstream, calls>>

\* Lines 29-48: the OpenAI client is built and its synthesis invoked; the
\* record holds the text it is invoked with and the payload it posts.
TtsCallOpenAI ==
    /\ pc = "tts_dispatch"
    /\ loc.provider = s_openai
    /\ IF OpenAITTSService(env)
       THEN /\ calls' = Append(calls, [op |-> "openai.text_to_speech",
                                       text |-> req.text,
                                       input |-> PromptText(StyleInstructions(env), req.text),
                                       voice |-> OpenAIVoice(RouteOpenAIVoice(req)),
                                       model |-> OpenAIModel(RouteOpenAIModel(req)),
                                       format |-> OpenAIFormat(OrElse(req.format, s_mp3))])
            /\ pc' = "tts_openai_await"
            /\ UNCHANGED resp
       ELSE /\ Raise(500, "Text-to-speech processing failed: OPENAI_API_KEY environment variable is required")
            /\ UNCHANGED calls
    /\ UNCHANGED <<tasks, env, kind, req, upstream, loc>>

\* Lines 50-54: the ElevenLabs client is built and its voices are fetched.
TtsCallVoices ==
    /\ pc = "tts_dispatch"
    /\ loc.provider # s_openai
    /\ IF ElevenLabsService(env)
       THEN /\ calls' = Append(calls, [op |-> "elevenlabs.get_voices"])
            /\ pc' = "tts_voices_await"
            /\ UNCHANGED resp
       ELSE /\ Raise(500, "Text-to-speech processing failed: ELEVENLABS_API_KEY environment variable is required")
            /\ UNCHANGED calls
    /\ UNCHANGED <<tasks, env, kind, req, upstream, loc>>

\* elevenlabs_service.py lines 87-97: the voices endpoint answers.  A status
\* other than 2xx or a transport error ends the request; otherwise the body
\* is still to be read.
TtsVoicesResponse ==
    /\ pc = "tts_voices_await"
    /\ \E r \in VoicesReplies :
         /\ upstream' = Append(upstream, r)
         /\ LET res == VoicesResult(r)
            IN  IF ~res.ok
                THEN Raise(res.status, res.detail)
                ELSE pc' = "tts_voices_body" /\ UNCHANGED resp
    /\ UNCHANGED <<tasks, env, kind, req, loc, calls>>

\* Lines 54-89: the voices are read, the voice is looked up by name and the
\* synthesis is invoked with its id.
TtsVoicesReply ==
    /\ pc = "tts_voices_body"
    /\ LET res == VoicesResult(upstream[Len(upstream)])
           i   == GetVoiceByName(res.voices, req.voice_name)
       IN  IF i = 0
           THEN /\ pc' = "Failed"
                /\ resp' = VoiceNotFound(req.voice_name, VoiceNames(res.voices))
                /\ loc' = [loc EXCEPT !.voices = VoiceNames(res.voices)]
                /\ UNCHANGED calls
           ELSE /\ loc' = [loc EXCEPT !.voices = VoiceNames(res.voices),
                                      !.voice_id = res.voices[i].voice_id]
                /\ calls' = Append(calls,
                      [op |-> "elevenlabs.text_to_speech",
                       text |-> req.text,
                       voice_id |-> res.voices[i].voice_id,
                       model_id |-> RouteElevenModel(req),
                       voice_settings |-> req.voice_settings])
                /\ pc' = "tts_eleven_await"
                /\ UNCHANGED resp
    /\ UNCHANGED <<tasks, env, kind, req, upstream>>

\* The label of the client's own failure message.
SynthLabel(p) == IF p \in {"tts_openai_await", "tts_openai_body"} THEN "OpenAI TTS"
                 ELSE "Text-to-speech"

\* openai_tts_service.py lines 116-124, elevenlabs_service.py lines 144-152:
\* the synthesis endpoint answers, or the transport fails; the body is still
\* to be read.
TtsSynthResponse ==
    /\ pc \in {"tts_openai_await", "tts_eleven_await"}
    /\ \E r \in SynthReplies :
         /\ upstream' = Append(upstream, r)
         /\ IF r.type = "exception"
            THEN LET res == SynthResult(r, SynthLabel(pc)) IN Raise(res.status, res.detail)
            ELSE /\ pc' = IF pc = "tts_openai_await" THEN "tts_openai_body"
                          ELSE "tts_eleven_body"
                 /\ UNCHANGED resp
    /\ UNCHANGED <<tasks, env, kind, req, loc, calls>>

\* A client that sends the synthesis again after an upstream error.
TtsSynthReplyRetrying ==
    /\ pc \in {"tts_openai_body", "tts_eleven_body"}
    /\ LET r   == upstream[Len(upstream)]
           res == SynthResult(r, SynthLabel(pc))
       IN  IF res.ok
           THEN /\ pc' = "Succeeded" /\ resp' = AudioResponse(req, res.audio_data)
                /\ UNCHANGED calls
           ELSE IF Len(calls) < 3
           THEN /\ calls' = Append(calls, calls[Len(calls)])
                /\ pc' = IF pc = "tts_openai_body" THEN "tts_openai_await"
                         ELSE "tts_eleven_await"
                /\ UNCHANGED resp
           ELSE Raise(res.status, res.detail) /\ UNCHANGED calls
    /\ UNCHANGED <<tasks, env, kind, req, upstream, loc>>

\* The body of the synthesis answer is read; lines 91-101 of the route build
\* the audio response.
TtsSynthReply ==
    /\ pc \in {"tts_openai_body", "tts_eleven_body"}
    /\ LET res == SynthResult(upstream[Len(upstream)], SynthLabel(pc))
       IN  IF res.ok
           THEN pc' = "Succeeded" /\ resp' = AudioResponse(req, res.audio_data)
           ELSE Raise(res.status, res.detail)
    /\ UNCHANGED <<tasks, env, kind, req, upstream, loc, calls>>

(***************************************************************************)
(* Chat: schemas.py, routes/chat.py and services/groq_service.py           *)
(***************************************************************************)
ChatTurns == [role : {"user", "system"}, content : {"a", "b"}]

ChatMessageLists == SeqsUpTo(ChatTurns, MaxMsgs)

ChatModels == {None, <<>>, <<" ">>, s_llama}

\* Hundredths: -0.01, 0, 0.7, 2, 2.01
ChatTemperatures == {<<>>, <<-1>>, <<0>>, <<70>>, <<200>>, <<201>>}

ChatMaxTokens == {<<>>, <<-1>>, <<0>>, <<1>>, <<100>>}

\* An optional number is a tuple of at most one element; the empty one is absent.
DefaultNum(v, d) == IF Len(v) = 0 THEN d ELSE v[1]

\* ChatRequest with the schema's defaults filled in.
ChatRequest(messages, model, temperature, max_tokens) ==
    [form |-> "json", messages |-> messages,
     model |-> Default(model, s_llama),
     temperature |-> DefaultNum(temperature, 70),
     max_tokens |-> DefaultNum(max_tokens, 1024)]

\* The Field constraints of ChatRequest: ge=0.0, le=2.0 and gt=0.  A body that
\* violates them never reaches the handler; the framework answers 422.
ChatSchemaValid(r) ==
    /\ r.temperature >= 0 /\ r.temperature <= 200
    /\ r.max_tokens > 0

ChatValidateNoModelRule(messages, model, temperature, max_tokens) ==
    IF Len(messages) = 0 THEN "Messages array is required and must be an array"
    ELSE IF temperature < 0 \/ temperature > 200
         THEN "Temperature must be a number between 0 and 2"
    ELSE IF max_tokens <= 0 THEN "max_tokens must be a positive number"
    ELSE ""

\* GroqService.create_chat_completion, lines 44-67: the same four checks.
ClientValidate(messages, model, temperature, max_tokens) ==
    IF Len(messages) = 0 THEN "Messages array is required and must be an array"
    ELSE IF Strip(model) = <<>> THEN "Model must be a non-empty string"
    ELSE IF temperature < 0 \/ temperature > 200
         THEN "Temperature must be a number between 0 and 2"
    ELSE IF max_tokens <= 0 THEN "max_tokens must be a positive number"
    ELSE ""

\* The four checks of the route (lines 24-47): the message of the first one
\* violated, or "".
ChatValidate(messages, model, temperature, max_tokens) ==
    IF Len(messages) = 0 THEN "Messages array is required and must be an array"
    ELSE IF Strip(model) = <<>> THEN "Model must be a non-empty string"
    ELSE IF temperature < 0 \/ temperature > 200
         THEN "Temperature must be a number between 0 and 2"
    ELSE IF max_tokens <= 0 THEN "max_tokens must be a positive number"
    ELSE ""

ForwardReversed(messages) ==
    [i \in 1..Len(messages) |-> [role |-> messages[Len(messages) + 1 - i].role,
                                 content |-> messages[Len(messages) + 1 - i].content]]

\* Lines 54-59: the turns as dictionaries, in order.
ForwardMessages(messages) ==
    [i \in 1..Len(messages) |-> [role |-> messages[i].role, content |-> messages[i].content]]

NoUsage == [present |-> FALSE, tokens |-> 0]

\* What the Groq chat completion may answer; the SDK raises on an error status.
ChatReplies ==
    {[type |-> "ok", status |-> 200, has_choices |-> TRUE, role |-> ro, content |-> c,
      usage |-> u, error |-> ""] :
        ro \in {"assistant", "model"}, c \in {"", "Hi there"},
        u \in {NoUsage, [present |-> TRUE, tokens |-> 12]}}
    \cup {[type |-> "ok", status |-> 200, has_choices |-> FALSE, role |-> "", content |-> "",
           usage |-> NoUsage, error |-> ""]}
    \cup {[type |-> "error", status |-> s, has_choices |-> FALSE, role |-> "", content |-> "",
           usage |-> NoUsage, error |-> e] : s \in ErrorStatuses, e \in ErrorTexts}
    \cup {[type |-> "exception", status |-> 0, has_choices |-> FALSE, role |-> "", content |-> "",
           usage |-> NoUsage, error |-> e] : e \in TransportErrors}

ChatRole(r) == "assistant"

\* GroqService.create_chat_completion after the upstream answered (lines 78-103).
ChatResult(r) ==
    CASE r.type \in {"exception", "error"} ->
           [ok |-> FALSE, status |-> 502,
            detail |-> "Failed to fetch completion from Groq API: " \o r.error]
      [] r.type = "ok" /\ (~r.has_choices \/ r.content = "") ->
           [ok |-> FALSE, status |-> 502, detail |-> "No response received from Groq API"]
      [] OTHER ->
           [ok |-> TRUE, role |-> ChatRole(r), content |-> r.content, usage |-> r.usage]

ReceiveChat ==
    /\ pc = "Idle"
    /\ \E ms \in ChatMessageLists, m \in ChatModels, tp \in ChatTemperatures,
          mt \in ChatMaxTokens :
         req' = ChatRequest(ms, m, tp, mt)
    /\ kind' = "chat"
    /\ pc' = "chat_schema"
    /\ UNCHANGED <<tasks, env, upstream, loc, calls, resp>>

\* The body is validated against ChatRequest before the handler is entered.
ChatSchema ==
    /\ pc = "chat_schema"
    /\ IF ChatSchemaValid(req)
       THEN pc' = "chat_construct" /\ UNCHANGED resp
       ELSE Raise(422, "Request validation failed")
    /\ UNCHANGED <<tasks, env, kind, req, upstream, loc, calls>>

\* Line 22: groq_service = GroqService()
ChatConstruct ==
    /\ pc = "chat_construct"
    /\ IF GroqService(env)
       THEN pc' = "chat_validate" /\ UNCHANGED resp
       ELSE Raise(500, "Chat processing failed: GROQ_API_KEY environment variable is required")
    /\ UNCHANGED <<tasks, env, kind, req, upstream, loc, calls>>

\* Lines 24-47: the route's validation.
ChatRouteValidate ==
    /\ pc = "chat_validate"
    /\ LET d == ChatValidate(req.messages, req.model, req.temperature, req.max_tokens)
       IN  IF d = ""
           THEN pc' = "chat_call" /\ UNCHANGED resp
           ELSE Raise(400, d)
    /\ UNCHANGED <<tasks, env, kind, req, upstream, loc, calls>>

\* Lines 54-67: create_chat_completion is invoked; it validates its
\* arguments again (groq_service.py lines 44-67) and then calls the upstream.
ChatCall ==
    /\ pc = "chat_call"
    /\ LET ms == ForwardMessages(req.messages)
           d  == ClientValidate(ms, req.model, req.temperature, req.max_tokens)
       IN  /\ calls' = Append(calls, [op |-> "groq.create_chat_completion",
                                      messages |-> ms, model |-> req.model,
                                      temperature |-> req.temperature,
                                      max_tokens |-> req.max_tokens])
           /\ IF d = ""
              THEN pc' = "chat_await" /\ UNCHANGED resp
              ELSE Raise(400, d)
    /\ UNCHANGED <<tasks, env, kind, req, upstream, loc>>

\* The completion answers; lines 69-78 build the response.
ChatReply ==
    /\ pc = "chat_await"
    /\ \E r \in ChatReplies :
         /\ upstream' = Append(upstream, r)
         /\ LET res == ChatResult(r)
            IN  IF res.ok
                THEN /\ pc' = "Succeeded"
                     /\ resp' = [status |-> 200, detail |-> "",
                                 body |-> [type |-> "chat", role |-> res.role,
                                           content |-> res.content, usage |-> res.usage]]
                ELSE Raise(res.status, res.detail)
    /\ UNCHANGED <<tasks, env, kind, req, loc, calls>>


(***************************************************************************)
(* The gateway.                                                            *)
(***************************************************************************)
\* The requests in flight in the event-loop view of the service.
Reqs == 1..NumReqs

\* The paths of a request that reach an upstream call.
TaskKinds == {"stt", "tts_openai", "tts_eleven", "chat"}

NewTask == [kind |-> "none", at |-> "new", waited |-> 0]

\* The waits of a path.  Each aiohttp call waits for the response and then
\* for its body; the ElevenLabs synthesis lists the voices first; an upload
\* may wait for its file; the chat completion is one synchronous call.
Waits(k) ==
    CASE k = "stt" -> 3
      [] k = "tts_openai" -> 2
      [] k = "tts_eleven" -> 4
      [] OTHER -> 1

\* speech_to_text.py line 42: the file of an upload held in memory is read
\* without a wait.
FirstWaits(k) == IF k = "stt" THEN {0, 1} ELSE {0}

\* chat.py line 61: create_chat_completion is a plain function over the
\* synchronous Groq client, called from the coroutine without await.
SyncCall(k) == k = "chat"

\* No handler is inside a synchronous call: the loop's thread can run a task.
LoopFree == \A r \in Reqs : tasks[r].at # "blocking"

Init ==
    /\ env \in Envs
    /\ kind = "none"
    /\ req = NoReq
    /\ upstream = <<>>
    /\ pc = "Idle"
    /\ loc = LocInit
    /\ calls = <<>>
    /\ resp = NoResp
    /\ tasks = [r \in Reqs |-> NewTask]

Next ==
    \/ ReceiveStt \/ SttConstruct \/ SttRead \/ SttSelect
    \/ SttFileRead \/ SttCallEleven \/ SttCallGroq \/ SttResponse \/ SttReply
    \/ ReceiveTts \/ TtsValidate \/ TtsCallOpenAI \/ TtsCallVoices
    \/ TtsVoicesResponse \/ TtsVoicesReply \/ TtsSynthResponse \/ TtsSynthReply
    \/ ReceiveChat \/ ChatSchema \/ ChatConstruct \/ ChatRouteValidate
    \/ ChatCall \/ ChatReply

Spec == Init /\ [][Next]_vars

(***************************************************************************)
(* The handlers as coroutines of one event loop: main.py serves the app    *)
(* with a single uvicorn process, every handler is an "async def", and a   *)
(* coroutine keeps the loop's thread until it awaits.                      *)
(***************************************************************************)
InitLoop ==
    /\ Init
    /\ env = [groq |-> TRUE, eleven |-> TRUE, openai |-> TRUE,
              tts_instructions |-> None]

\* A request arrives on the socket and its handler is scheduled.
Arrive(r) ==
    /\ tasks[r].at = "new"
    /\ \E k \in TaskKinds :
         tasks' = [tasks EXCEPT ![r] = [kind |-> k, at |-> "ready", waited |-> 0]]
    /\ UNCHANGED handler

\* The loop runs the handler from its start: it rejects the request, or goes
\* on to its first wait.  The file read and the aiohttp clients are awaited
\* and release the thread; the Groq client is called without await and keeps it.
RunHandler(r) ==
    /\ LoopFree
    /\ tasks[r].at = "ready"
    /\ \/ tasks' = [tasks EXCEPT ![r].at = "done"]
       \/ \E w \in FirstWaits(tasks[r].kind) :
            tasks' = [tasks EXCEPT ![r].at = IF SyncCall(tasks[r].kind)
                                             THEN "blocking" ELSE "awaiting",
                                   ![r].waited = w]
    /\ UNCHANGED handler

\* What the task waits for arrives.  An awaited answer makes the coroutine
\* runnable again; the synchronous call returns into the handler, which runs
\* to its end.
UpstreamAnswer(r) ==
    /\ tasks[r].at \in {"awaiting", "blocking"}
    /\ tasks' = [tasks EXCEPT ![r].at = IF tasks[r].at = "blocking"
                                        THEN "done" ELSE "resumable",
                              ![r].waited = tasks[r].waited + 1]
    /\ UNCHANGED handler

\* The loop resumes a coroutine whose answer arrived: it goes on to its next
\* wait, or ends (after its last wait, or earlier with an error).
Resume(r) ==
    /\ LoopFree
    /\ tasks[r].at = "resumable"
    /\ \/ tasks' = [tasks EXCEPT ![r].at = "done"]
       \/ /\ tasks[r].waited < Waits(tasks[r].kind)
          /\ tasks' = [tasks EXCEPT ![r].at = "awaiting"]
    /\ UNCHANGED handler

NextLoop ==
    \E r \in Reqs : Arrive(r) \/ RunHandler(r) \/ UpstreamAnswer(r) \/ Resume(r)

SpecLoop == InitLoop /\ [][NextLoop]_vars

(***************************************************************************)
(* Properties.                                                             *)
(***************************************************************************)
Terminal == pc \in {"Succeeded", "Failed"}

\* The request carries an audio buffer of zero bytes: an empty uploaded file,
\* or a base64 string that decodes, without error, to nothing.
EmptyAudioRequest ==
    /\ kind = "stt"
    /\ \/ req.form = "upload" /\ Len(req.file_data) = 0
       \/ /\ req.form = "json" /\ req.audio # None
          /\ B64Decode(req.audio).ok /\ Len(B64Decode(req.audio).data) = 0

\* C1 as stated: in every environment a speech-to-text request with an empty
\* audio buffer ends Failed with status 400 and no provider client operation
\* is invoked.
C1_EveryEnvironment400 ==
    EmptyAudioRequest =>
        /\ calls = <<>>
        /\ Terminal => (pc = "Failed" /\ resp.status = 400)

\* C1 as amended: a speech-to-text request with an empty audio buffer never
\* invokes a provider client operation and ends Failed, with status 400 when
\* the Groq credential is present and with status 500 (the Groq client is
\* constructed before the buffer is looked at) when it is absent.
C1_EmptyAudioRejected ==
    EmptyAudioRequest =>
        /\ calls = <<>>
        /\ pc \notin {"Succeeded", "stt_select", "stt_dispatch", "stt_await", "stt_body"}
        /\ Terminal => /\ pc = "Failed"
                       /\ resp.status = IF env.groq THEN 400 ELSE 500

C1_Witness ==
    /\ EmptyAudioRequest
    /\ req.form = "upload" /\ req.file_ext = s_wav
    /\ pc = "Failed" /\ resp.status = 400
    /\ resp.detail = "Invalid audio data - empty buffer"

\* The provider-A naming convention, read off the identifier itself.
ProviderAName(m) ==
    LET n == Lower(Strip(m))
    IN  \/ n = s_scribe_v1
        \/ Len(n) >= Len(s_eleven_) /\ \A i \in 1..Len(s_eleven_) : n[i] = s_eleven_[i]

\* C2: once the provider decision is taken, ElevenLabs is chosen exactly for
\* the identifiers that, trimmed and lower-cased, equal scribe_v1 or start
\* with eleven_; every other identifier goes to Groq; the decision itself
\* never fails and the ElevenLabs transcription is invoked only for those.
C2_SelectionByModelId ==
    kind = "stt" =>
        /\ pc \in {"stt_dispatch", "stt_await", "stt_body"} =>
               (loc.use_eleven <=> ProviderAName(loc.model_id))
        /\ calls # <<>> =>
               (calls[1].op = "elevenlabs.speech_to_text" /\ ProviderAName(loc.model_id))
        /\ (Terminal /\ loc.model_id # None) =>
               \/ calls # <<>>
               \/ /\ ProviderAName(loc.model_id)
                  /\ resp.detail = "Speech-to-text processing failed: ELEVENLABS_API_KEY environment variable is required"
               \/ /\ ~ProviderAName(loc.model_id)
                  /\ resp.detail = "Speech-to-text processing failed: 'GroqService' object has no attribute 'transcribe_audio'"

C2_Witness ==
    /\ kind = "stt" /\ pc = "stt_await"
    /\ loc.use_eleven
    /\ loc.model_id # Lower(Strip(loc.model_id))
    /\ StartsWith(Lower(Strip(loc.model_id)), s_eleven_)

\* C3 as stated: a speech-to-text request with non-empty audio and a model
\* identifier of provider B invokes provider B's transcription once, and when
\* that answers 2xx with a text the request succeeds with that text and the
\* confidence (0 when omitted).
C3_GroqTranscriptionReturned ==
    (kind = "stt" /\ Terminal /\ env.groq /\ loc.model_id # None
                  /\ ~ProviderAName(loc.model_id)) =>
        /\ Len(calls) = 1 /\ Len(upstream) = 1
        /\ calls[1].op = "groq.transcribe_audio"
        /\ (upstream[1].type = "ok" /\ upstream[1].text # "") =>
              /\ pc = "Succeeded"
              /\ resp.body = [type |-> "transcription", text |-> upstream[1].text,
                              confidence |-> IF upstream[1].has_confidence
                                             THEN upstream[1].confidence ELSE 0]

\* The 400 responses the gateway raises itself for a bad request.
ValidationDetails ==
    {"Invalid audio data - empty buffer", "Audio data is required",
     "Invalid base64 audio data", "Invalid audio data - empty buffer after decoding",
     "Text is required",
     "Messages array is required and must be an array",
     "Model must be a non-empty string",
     "Temperature must be a number between 0 and 2",
     "max_tokens must be a positive number"}

\* The request was rejected because no listed voice has the requested name.
VoiceRejected ==
    /\ kind = "tts" /\ pc = "Failed" /\ Len(upstream) = 1
    /\ upstream[1].type = "ok"
    /\ resp = VoiceNotFound(req.voice_name, loc.voices)

ValidationFailure ==
    /\ pc = "Failed" /\ resp.status = 400
    /\ resp.detail \in ValidationDetails \/ VoiceRejected

\* C4 as stated: a request that fails validation with 400 has invoked no
\* provider client operation, the voice-not-found rejection included.
C4_ValidationBeforeAnyCall == ValidationFailure => calls = <<>>

\* C4 as amended: a request that fails validation with 400 has invoked no
\* provider client operation, except the voice-not-found rejection of the
\* ElevenLabs path, which has invoked the voice listing, once, and nothing else.
C4_ValidationBeforeSynthesis ==
    ValidationFailure =>
        \/ calls = <<>>
        \/ /\ VoiceRejected
           /\ calls = <<[op |-> "elevenlabs.get_voices"]>>

C4_Witness ==
    /\ ValidationFailure
    /\ VoiceRejected
    /\ Len(calls) = 1 /\ Len(loc.voices) > 0

Ops == [i \in 1..Len(calls) |-> calls[i].op]

\* C5 as stated: a request that has invoked a provider client operation has
\* invoked exactly one.
C5_ExactlyOneOperation == (Terminal /\ calls # <<>>) => Len(calls) = 1

\* C5 as amended: no operation is invoked twice and nothing is invoked after
\* an upstream call failed; a request that reaches the upstream invokes
\* exactly one operation, except on the ElevenLabs text-to-speech path, where
\* the voice listing is invoked first and the synthesis, once, after it.
C5_NoRepeatedOperation ==
    /\ Len(upstream) <= Len(calls)
    /\ \A i \in 1..Len(upstream) : upstream[i].type # "ok" => i = Len(calls)
    /\ \A i, j \in 1..Len(calls) : calls[i].op = calls[j].op => i = j
    /\ calls # <<>> =>
          IF calls[1].op = "elevenlabs.get_voices"
          THEN kind = "tts" /\ Ops \in {<<"elevenlabs.get_voices">>,
                                       <<"elevenlabs.get_voices", "elevenlabs.text_to_speech">>}
          ELSE Len(calls) = 1
    /\ pc = "Succeeded" =>
          /\ Len(upstream) = Len(calls)
          /\ Len(calls) = IF kind = "tts" /\ loc.provider # s_openai THEN 2 ELSE 1

C5_Witness ==
    /\ kind = "tts" /\ pc = "Failed"
    /\ Len(calls) = 2 /\ Len(upstream) = 2
    /\ upstream[2].type = "error"

\* C6 as stated: when any provider operation (transcription, synthesis, voice
\* listing, chat completion) is answered with an error status S, the request
\* does not succeed and the status of its response is S.
C6_StatusPassedThrough ==
    \A i \in 1..Len(upstream) :
        upstream[i].type = "error" =>
            /\ pc # "Succeeded"
            /\ Terminal => resp.status = upstream[i].status

\* The first rule a chat request violates, in the order messages, model,
\* temperature, max_tokens; "" when it violates none.
FirstViolatedRule ==
    CASE Len(req.messages) = 0 -> "Messages array is required and must be an array"
      [] \A i \in 1..Len(req.model) : req.model[i] \in Whitespace ->
             "Model must be a non-empty string"
      [] req.temperature < 0 \/ req.temperature > 200 ->
             "Temperature must be a number between 0 and 2"
      [] req.max_tokens <= 0 -> "max_tokens must be a positive number"
      [] OTHER -> ""

\* C7 as stated: a chat request is rejected with 400 and the message of the
\* first rule it violates, in the order messages, model, temperature in
\* [0, 2], max_tokens > 0; a request that violates none is not rejected.
C7_FirstViolatedRule400 ==
    (kind = "chat" /\ Terminal /\ env.groq) =>
        IF FirstViolatedRule # ""
        THEN pc = "Failed" /\ resp.status = 400 /\ resp.detail = FirstViolatedRule
        ELSE resp.status \notin {400, 422}

\* C8: the turns reach the upstream in their order, role and content as
\* given, and when the upstream answers with a non-empty content the response
\* is that content under the role assistant, with the upstream's usage.
C8_ChatForwardedAndAnswered ==
    (kind = "chat" /\ calls # <<>>) =>
        /\ calls[1].op = "groq.create_chat_completion"
        /\ Len(calls[1].messages) = Len(req.messages)
        /\ \A i \in 1..Len(req.messages) :
              /\ calls[1].messages[i].role = req.messages[i].role
              /\ calls[1].messages[i].content = req.messages[i].content
        /\ (Terminal /\ upstream[1].type = "ok" /\ upstream[1].has_choices
                     /\ upstream[1].content # "") =>
              /\ pc = "Succeeded" /\ resp.status = 200
              /\ resp.body = [type |-> "chat", role |-> "assistant",
                              content |-> upstream[1].content,
                              usage |-> upstream[1].usage]
        /\ pc = "Succeeded" => (upstream[1].type = "ok" /\ upstream[1].content # "")

C8_Witness ==
    /\ kind = "chat" /\ pc = "Succeeded"
    /\ Len(req.messages) = 2 /\ req.messages[1] # req.messages[2]
    /\ upstream[1].role = "model" /\ upstream[1].usage.present
    /\ resp.body.role = "assistant" /\ resp.body.content = "Hi there"

\* C9: a text-to-speech request that asks for a text goes to OpenAI exactly
\* when its provider field, lower-cased, is openai, and to ElevenLabs for any
\* other value, the empty one included; the choice itself never fails.
C9_TtsProviderSelection ==
    (kind = "tts" /\ pc \notin {"tts_validate"}) =>
        LET openai == Lower(req.provider) = s_openai
        IN  /\ pc = "tts_dispatch" => (loc.provider = s_openai <=> openai)
            /\ calls # <<>> => (calls[1].op = "openai.text_to_speech" <=> openai)
            /\ calls # <<>> => (calls[1].op = "elevenlabs.get_voices" <=> ~openai)
            /\ (Terminal /\ calls = <<>>) =>
                  \/ req.text = "" /\ resp.status = 400
                  \/ /\ openai /\ ~env.openai
                     /\ resp.detail = "Text-to-speech processing failed: OPENAI_API_KEY environment variable is required"
                  \/ /\ ~openai /\ ~env.eleven
                     /\ resp.detail = "Text-to-speech processing failed: ELEVENLABS_API_KEY environment variable is required"

C9_Witness ==
    /\ kind = "tts" /\ pc = "tts_openai_await"
    /\ req.provider = Upper(s_openai)
    /\ calls[1].op = "openai.text_to_speech"

\* The voice the claim describes for a requested name.
ClaimedVoice(v) ==
    LET n == Lower(Strip(v))
    IN  IF n \in AliasNames THEN s_ballad
        ELSE IF n \in AllowedVoices THEN n
        ELSE s_ballad

\* C10 as stated: the voice sent to OpenAI is an allowed voice, namely the
\* requested name trimmed and lower-cased, ballad for an alias and ballad for
\* every name that is not an allowed voice.
C10_VoiceNormalized ==
    (kind = "tts" /\ calls # <<>> /\ calls[1].op = "openai.text_to_speech") =>
        /\ calls[1].voice \in AllowedVoices
        /\ calls[1].voice = ClaimedVoice(req.voice_name)

\* C10 as amended: the voice sent to OpenAI is an allowed voice, namely the
\* requested name trimmed and lower-cased, ballad for an alias and ballad for
\* every non-empty name that is not an allowed voice; an empty name is
\* replaced by echo before normalization.
C10_VoiceNormalizedOrEcho ==
    (kind = "tts" /\ calls # <<>> /\ calls[1].op = "openai.text_to_speech") =>
        /\ calls[1].voice \in AllowedVoices
        /\ calls[1].voice = IF req.voice_name = <<>> THEN s_echo
                            ELSE ClaimedVoice(req.voice_name)

C10_Witness ==
    /\ kind = "tts" /\ pc = "tts_openai_await"
    /\ req.voice_name = <<" ">> \o Upper(s_boy) \o <<"\t">>
    /\ calls[1].voice = s_ballad

\* Model identifiers of OpenAI's namespace.
OpenAIModelNames == {s_gpt4o, s_tts1}

\* C11 as stated: no text-to-speech call carries a model identifier of the
\* other provider's namespace; where the request names one, the provider's
\* own default is sent.
C11_NoForeignModelForwarded ==
    kind = "tts" =>
        \A i \in 1..Len(calls) :
            /\ calls[i].op = "openai.text_to_speech" =>
                  /\ ~StartsWith(calls[i].model, s_eleven_)
                  /\ (req.model_id # None /\ StartsWith(req.model_id, s_eleven_)) =>
                         calls[i].model = s_gpt4o
            /\ calls[i].op = "elevenlabs.text_to_speech" =>
                  /\ calls[i].model_id \notin OpenAIModelNames
                  /\ req.model_id \in OpenAIModelNames =>
                         calls[i].model_id = s_eleven_multilingual_v2

\* The audio bytes the synthesis answered with.
SynthesizedAudio == upstream[Len(upstream)].audio

\* C12: a successful text-to-speech response carries the provider's bytes
\* unchanged, their length as Content-Length, the lower-cased requested
\* format (mp3 when none) as the file extension, and audio/mpeg for mp3 and
\* audio/wav for every other format as Content-Type.
C12_AudioResponseHeaders ==
    (kind = "tts" /\ pc = "Succeeded") =>
        LET fmt == IF req.format = <<>> THEN s_mp3
                   ELSE [i \in 1..Len(req.format) |-> LowerChar(req.format[i])]
        IN  /\ resp.status = 200
            /\ resp.body.type = "audio"
            /\ resp.body.content = SynthesizedAudio
            /\ resp.body.content_length = Len(SynthesizedAudio)
            /\ resp.body.file_ext = fmt
            /\ resp.body.media_type = IF fmt = s_mp3 THEN "audio/mpeg" ELSE "audio/wav"

C12_Witness ==
    /\ kind = "tts" /\ pc = "Succeeded"
    /\ req.format = Upper(s_wav)
    /\ Len(resp.body.content) = 2
    /\ resp.body.media_type = "audio/wav" /\ resp.body.file_ext = s_wav

\* A well-formed base64 text: whole quads of alphabet characters, the last
\* quad ending in at most two padding characters.
StrictBase64(s) ==
    LET n    == Len(s)
        pads == IF n >= 2 /\ s[n] = "=" THEN (IF s[n - 1] = "=" THEN 2 ELSE 1) ELSE 0
    IN  /\ n % 4 = 0
        /\ \A i \in 1..(n - pads) : IndexIn(s[i], B64Chars) # 0

\* C13 as stated: the base64 text of a non-empty buffer B puts exactly B
\* before the selected provider's transcription, and a text that is not
\* well-formed base64 ends the request with 400 and reaches no provider
\* (stated for requests that select provider A, with every credential in
\* place).
C13_Base64RoundTrip ==
    (kind = "stt" /\ req.form = "json" /\ req.audio # None
        /\ env.groq /\ env.eleven /\ UseEleven(req.model_id)) =>
        /\ \A b \in AudioBuffers \ {<<>>} :
               (req.audio = B64Encode(b) /\ Terminal) =>
                   /\ Len(calls) = 1
                   /\ calls[1].audio_data = b
        /\ (~StrictBase64(req.audio)) =>
               /\ calls = <<>>
               /\ Terminal => (pc = "Failed" /\ resp.status = 400)

\* The voice list the voices endpoint answered with.
ListedVoices == upstream[1].voices

\* C14: on the ElevenLabs path synthesis receives only the id of the first
\* listed voice whose name equals the requested name exactly; when no listed
\* voice has that name the request ends with a 400 enumerating the listed
\* names and synthesis is never invoked.
C14_FirstExactVoiceOrRejected ==
    (kind = "tts" /\ Len(upstream) >= 1 /\ upstream[1].type = "ok"
        /\ calls[1].op = "elevenlabs.get_voices") =>
        LET V       == ListedVoices
            matches == {i \in 1..Len(V) : V[i].name = req.voice_name}
        IN  /\ \A k \in 1..Len(calls) :
                   calls[k].op = "elevenlabs.text_to_speech" =>
                       \E i \in matches :
                           /\ \A j \in matches : i <= j
                           /\ calls[k].voice_id = V[i].voice_id
            /\ (matches = {} /\ pc # "tts_voices_body") =>
                   /\ pc = "Failed"
                   /\ resp.status = 400
                   /\ resp.detail = "Voice '" \o Str(req.voice_name)
                                    \o "' not found. Available voices: "
                                    \o Join([i \in 1..Len(V) |-> V[i].name])
                   /\ Len(calls) = 1
            /\ (matches # {} /\ Len(upstream) = 1 /\ pc # "tts_voices_body") =>
                   /\ Len(calls) = 2
                   /\ calls[2].op = "elevenlabs.text_to_speech"

\* Synthesis invoked with the first of two voices named Bill.
C14_Witness ==
    /\ kind = "tts" /\ Len(calls) = 2
    /\ Len(ListedVoices) = 3
    /\ calls[2].op = "elevenlabs.text_to_speech"
    /\ calls[2].voice_id = "v2"

\* The provider an upstream operation belongs to.
ProviderOfOp(op) ==
    CASE op \in {"elevenlabs.speech_to_text", "elevenlabs.get_voices",
                 "elevenlabs.text_to_speech"} -> "eleven"
      [] op = "openai.text_to_speech" -> "openai"
      [] OTHER -> "groq"

\* C15: a client whose API credential is absent fails at construction: no
\* operation of that provider is ever invoked, and a request that has
\* constructed such a client has ended Failed (500) there, with no call made.
C15_MissingCredentialFailsAtConstruction ==
    /\ \A i \in 1..Len(calls) : env[ProviderOfOp(calls[i].op)]
    /\ (kind = "stt" /\ ~env.groq /\ pc # "stt_construct") =>
           (pc = "Failed" /\ resp.status = 500 /\ calls = <<>>)
    /\ (kind = "stt" /\ env.groq /\ ~env.eleven /\ loc.use_eleven
          /\ pc # "stt_dispatch") =>
           (pc = "Failed" /\ resp.status = 500 /\ calls = <<>>)
    /\ (kind = "chat" /\ ~env.groq /\ pc \notin {"chat_schema", "chat_construct"}) =>
           (pc = "Failed" /\ resp.status \in {422, 500} /\ calls = <<>>)
    /\ (kind = "tts" /\ pc \notin {"tts_validate", "tts_dispatch"} /\ req.text # ""
          /\ ~(IF loc.provider = s_openai THEN env.openai ELSE env.eleven)) =>
           (pc = "Failed" /\ resp.status = 500 /\ calls = <<>>)

\* A speech-to-text request for provider A ended at the construction of the
\* ElevenLabs client, no operation invoked.
C15_Witness ==
    /\ kind = "stt" /\ pc = "Failed" /\ resp.status = 500
    /\ env.groq /\ ~env.eleven /\ loc.use_eleven
    /\ Len(loc.audio_data) > 0
    /\ calls = <<>>

\* A JSON request whose base64 text decodes to at least one byte, for the
\* provider-B model whisper-large-v3.
DummyAudioRequest ==
    /\ kind = "stt" /\ req.form = "json" /\ req.audio # None
    /\ B64Decode(req.audio).ok /\ Len(B64Decode(req.audio).data) > 0
    /\ req.model_id = s_whisper

\* C16 as stated: such a request is rejected with status 400.
C16_DummyAudioRejected400 ==
    (DummyAudioRequest /\ Terminal) => (pc = "Failed" /\ resp.status = 400)

\* C16 as amended: with the Groq credential in place such a request is
\* rejected with status 400, "Audio data is required", and no provider client
\* operation is invoked; without the credential it ends with status 500.
C16_RejectedWithCredential ==
    DummyAudioRequest =>
        /\ calls = <<>>
        /\ pc \in {"stt_construct", "stt_read", "Failed"}
        /\ Terminal =>
              IF env.groq
              THEN resp.status = 400 /\ resp.detail = "Audio data is required"
              ELSE resp.status = 500

C16_Witness ==
    /\ DummyAudioRequest /\ pc = "Failed"
    /\ Len(B64Decode(req.audio).data) = 2
    /\ resp.status = 400 /\ resp.detail = "Audio data is required"

\* The provider of the request has been selected: the text-to-speech provider
\* computed, or the speech-to-text choice made.
ProviderSelected ==
    \/ kind = "tts" /\ loc.provider # None
    \/ kind = "stt" /\ loc.content_type # <<>>

SuccessBodies == {"transcription", "audio", "chat"}

AwaitStates == {"stt_body", "tts_openai_body", "tts_eleven_body", "chat_await"}

\* The position of a step in the handler, counted from the receipt.
StepRank(p) ==
    CASE p = "Idle" -> 0
      [] p \in {"stt_construct", "tts_validate", "chat_schema"} -> 1
      [] p \in {"stt_read", "tts_dispatch", "chat_construct"} -> 2
      [] p \in {"stt_file_wait", "chat_validate"} -> 3
      [] p \in {"stt_select", "chat_call"} -> 4
      [] p \in {"stt_dispatch", "tts_openai_await", "tts_voices_await", "chat_await"} -> 5
      [] p \in {"stt_await", "tts_openai_body", "tts_voices_body"} -> 6
      [] p \in {"stt_body", "tts_eleven_await"} -> 7
      [] p = "tts_eleven_body" -> 8
      [] OTHER -> 9

\* C17 as stated: no validation runs after the provider selection or after an
\* upstream call, Succeeded is reached only after an upstream call, and a
\* Failed request carries no success body.
C17_StrictStateOrder ==
    /\ ValidationFailure => (~ProviderSelected /\ calls = <<>>)
    /\ pc = "Succeeded" => (calls # <<>> /\ Len(upstream) = Len(calls))
    /\ pc = "Failed" => resp.body.type \notin SuccessBodies

\* C17 as amended: what holds in every state.  Speech-to-text and chat
\* validate before the selection and before any call; text-to-speech selects
\* the provider first, checks the text before any call, and checks the voice
\* name after the voice listing.
C17_OrderInv ==
    /\ (ValidationFailure /\ kind # "tts") => (~ProviderSelected /\ calls = <<>>)
    /\ (ValidationFailure /\ kind = "tts") =>
           /\ ProviderSelected
           /\ resp.detail = "Text is required" => calls = <<>>
           /\ VoiceRejected =>
                  (calls = <<[op |-> "elevenlabs.get_voices"]>> /\ Len(upstream) = 1)
    /\ pc = "Succeeded" =>
           /\ calls # <<>> /\ Len(upstream) = Len(calls)
           /\ upstream[Len(upstream)].type = "ok"
           /\ resp.status = 200 /\ resp.body.type \in SuccessBodies
    /\ pc = "Failed" => (resp.status >= 400 /\ resp.body.type \notin SuccessBodies)

\* C17 as amended: what holds of every step.  Steps only move forward, a
\* terminal state is final, and Succeeded is entered only from the wait for an
\* upstream answer.
C17_OrderStep ==
    /\ pc' # pc => StepRank(pc') > StepRank(pc)
    /\ Terminal => UNCHANGED <<pc, resp, calls, upstream>>
    /\ (pc' = "Succeeded" /\ pc # "Succeeded") => pc \in AwaitStates

\* C17 as amended: every request moves forward through the steps of its
\* handler and ends in exactly one of Succeeded and Failed, which is final;
\* Succeeded is reached only from the wait for an upstream answer, after the
\* call; a Failed request carries no success body; validation precedes the
\* provider selection and every call on the speech-to-text and chat paths,
\* while text-to-speech selects its provider before the text check and checks
\* the voice name after the voice listing.
C17_ForwardOrder == []C17_OrderInv /\ [][C17_OrderStep]_vars

\* A text-to-speech request rejected for its empty text after the provider
\* was selected.
C17_Witness ==
    /\ kind = "tts" /\ ValidationFailure
    /\ resp.detail = "Text is required"
    /\ loc.provider = s_openai
    /\ calls = <<>>

\* The format ElevenLabs synthesizes when the request to it names none.
ElevenNativeFormat == s_mp3

\* The output format the provider was asked for by the synthesis call.
RequestedOfProvider ==
    LET c == calls[Len(calls)]
    IN  IF c.op = "openai.text_to_speech" THEN c.format ELSE ElevenNativeFormat

\* C19 as stated: in a successful text-to-speech response the file extension
\* is the format asked of the provider, and the Content-Type is audio/mpeg
\* exactly when that format is mp3.
C19_HeadersAgreeWithProviderFormat ==
    (kind = "tts" /\ pc = "Succeeded") =>
        /\ resp.body.file_ext = RequestedOfProvider
        /\ (resp.body.media_type = "audio/mpeg") <=> (RequestedOfProvider = s_mp3)

\* The request carries audio of at least one byte.
CarriesAudio ==
    \/ req.form = "upload" /\ Len(req.file_data) > 0
    \/ /\ req.form = "json" /\ req.audio # None
       /\ B64Decode(req.audio).ok /\ Len(B64Decode(req.audio).data) > 0

\* C20 as stated: a speech-to-text request that carries audio and supplies no
\* model identifier is dispatched to provider B in either input form (the
\* Groq credential in place): once its audio is read, provider B is selected.
C20_DefaultProviderBothForms ==
    (kind = "stt" /\ CarriesAudio /\ ~req.model_given /\ env.groq
        /\ pc \notin {"stt_construct", "stt_read", "stt_file_wait", "stt_select"}) =>
        /\ ProviderSelected
        /\ ~loc.use_eleven
        /\ loc.model_id = s_whisper

\* C18 as stated: while a request waits for its upstream answer, on any path,
\* every other request that has a step to take can take it.
C18_UpstreamWaitBlocksNoOther ==
    \A a, b \in Reqs :
        (a # b /\ tasks[a].at \in {"awaiting", "blocking"}
              /\ tasks[b].at \in {"ready", "resumable"}) =>
            ENABLED (RunHandler(b) \/ Resume(b))

====
